---- MODULE Spec2Model ----
(***************************************************************************)
(* DownloadManager of distroget.py: a pool of worker threads that take     *)
(* URLs from a FIFO queue, download them, retry failures and keep a shared *)
(* status (active_downloads, completed, failed, retry_counts) under one    *)
(* lock; get_status() returns a snapshot of that status.                   *)
(***************************************************************************)
EXTENDS Integers, Sequences, FiniteSets, TLC

\* ---- bounds of the model -------------------------------------------------
NumUrls == 2            \* distinct URLs the operator may submit
MaxAdds == 2            \* add_download() calls in one run
MaxAddsObserved == 1    \* add_download() calls in a run with an observer
MaxAddsFair == 1        \* add_download() calls in a run checked for progress
BodyLen == 2            \* chunks in a response body

max_workers == 2        \* DownloadManager(max_workers=...): worker threads

\* ---- program constants -----------------------------------------------------
max_retries == 3        \* self.max_retries

Urls == 1..NumUrls
Workers == 1..max_workers
NoUrl == 0
NoWorker == 0

\* url.split('/')[-1]: the final path segment; URLs 1 and 3 share one.
FileName(url) == ((url - 1) % 2) + 1

\* int(r.headers.get('content-length', 0)): odd URLs are served with a length.
ContentLength(url) == IF url % 2 = 1 THEN BodyLen ELSE 0

\* the names a file of the destination (or staging) directory can have
FileNames == {FileName(u) : u \in Urls}

\* r.iter_content(chunk_size=8192): the chunks of the body served for url
Body(url) == [i \in 1..BodyLen |-> url]

\* stop(): the position after the last worker.join(timeout=1)
Returned == max_workers + 1

\* the steps of _download_file, from its call to its return or raise
InFlight == {"download", "open", "stream", "scp", "remove"}

VARIABLES
    is_remote,          \* self.is_remote
    running,            \* self.running
    download_queue,     \* self.download_queue: FIFO of URLs
    unfinished_tasks,   \* download_queue.unfinished_tasks
    active_downloads,   \* self.active_downloads: url -> reference of an entry
    heap,               \* the entry dicts: reference -> [filename, progress, total]
    completed,          \* self.completed
    completed_urls,     \* self.completed_urls
    failed,             \* self.failed
    retry_counts,       \* self.retry_counts: url -> count
    lock,               \* self.lock: the worker holding it, or NoWorker
    pc,                 \* position of each worker thread in _worker
    url,                \* _worker's local url
    retry_count,        \* _worker's local retry_count
    downloaded,         \* _download_file's local downloaded
    files,              \* file names that exist in the destination directory
    relay,              \* _download_file's scp run: "none", "ok" or "failed"
    remote_files,       \* file names that exist under remote_host:remote_path
    contents,           \* file name -> the chunks in the file, each named by its URL
    unlinked,           \* the file a worker has open was removed from the directory
    delay,              \* the argument of the time.sleep() of this pass through the except block
    joining,            \* stop(): the worker being joined; 0 before, Returned after
    streamed,           \* history: URLs of which an attempt wrote the whole body
    existed,            \* history: URLs whose destination existed at their first attempt
    status,             \* the value last returned by get_status()
    adds,               \* add_download() calls still allowed in this run
    submits,            \* history: add_download() calls per URL
    attempts,           \* history: _download_file calls per URL
    failures,           \* history: _download_file calls per URL that raised
    first_outcome,      \* history: how the first _download_file call of a URL ended
    selected_items,     \* curses_menu's selected_items: item paths
    downloaded_items,   \* curses_menu's downloaded_items: URLs passed to add_download()
    download_manager,   \* curses_menu's download_manager is not None
    target_directory,   \* curses_menu's target_directory is set
    path_stack,         \* curses_menu's path_stack
    row_stack,          \* curses_menu's row_stack
    current_row,        \* curses_menu's current_row, counted from 1
    in_menu             \* curses_menu is in its key loop

mgr == <<is_remote, running, download_queue, unfinished_tasks, active_downloads,
         completed, completed_urls, failed, retry_counts, lock, pc, url,
         retry_count, downloaded, files, relay, remote_files, contents, unlinked,
         delay, joining, streamed, existed, adds, submits, attempts, failures,
         first_outcome>>
menu == <<selected_items, downloaded_items, download_manager, target_directory,
          path_stack, row_stack, current_row, in_menu>>
vars == <<mgr, heap, status, menu>>

\* ---- dict helpers --------------------------------------------------------
DictPut(d, k, v) == [x \in (DOMAIN d) \cup {k} |-> IF x = k THEN v ELSE d[x]]
DictDel(d, k) == [x \in (DOMAIN d) \ {k} |-> d[x]]
DictGet(d, k, dflt) == IF k \in DOMAIN d THEN d[k] ELSE dflt
EmptyDict == [x \in {} |-> 0]

\* A reference not in use: the identity of a newly created dict.
NewRef(h) == CHOOSE r \in 1..(Cardinality(DOMAIN h) + 1) : r \notin DOMAIN h

\* Entries referenced neither by active_downloads nor by a returned status are freed.
Collect(h, act, st) ==
    LET live == {act[u] : u \in DOMAIN act} \cup {st.active[u] : u \in DOMAIN st.active}
    IN [r \in (DOMAIN h) \cap live |-> h[r]]

\* How the first call of _download_file(u, ...) to end has ended.
Outcome(u, o) == IF first_outcome[u] = "none" THEN o ELSE first_outcome[u]

\* if retry_count < self.max_retries:
ShouldRetryOffByOne(rc) == rc <= max_retries
ShouldRetry(rc) == rc < max_retries

\* self.retry_counts[url] = retry_count + 1
NextRetryCountSkipping(rc) == rc + 2
NextRetryCount(rc) == rc + 1

\* if url in self.retry_counts: del self.retry_counts[url]
ClearRetryForgotten(rcs, u) == rcs
ClearRetry(rcs, u) == DictDel(rcs, u)

\* return  (of _download_file, when the destination exists): on to the success block
SkipTargetRaising == "except"
SkipTarget == "success"

\* except Exception as e:  (of _worker): where an error of _download_file lands
ErrorTargetUncaught == "exited"
ErrorTarget == "except"

\* self.completed.add(url)
RecordCompletedDropped(done, u) == done
RecordCompleted(done, u) == done \cup {u}

\* self.completed_urls.add(url)
RecordCompletedUrlDropped(done, u) == done
RecordCompletedUrl(done, u) == done \cup {u}

\* self.failed.add(url)
RecordFailedDropped(fs, u) == fs
RecordFailed(fs, u) == fs \cup {u}

\* if url in self.active_downloads: del self.active_downloads[url]  (except block)
ReleaseEntryKept(act, u) == act
ReleaseEntry(act, u) == [x \in (DOMAIN act) \ {u} |-> act[x]]

\* self.download_queue.task_done()
TaskDoneCountForgotten(n) == n
TaskDoneCount(n) == n - 1

\* os.remove(local_path)
RemoveLocalForgotten(fs, f) == fs
RemoveLocal(fs, f) == fs \ {f}

\* f.write(chunk) at the writer's own offset: chunk i of a file of chunks s
\* becomes the chunk of u; a write past the end leaves a hole before it.
WriteAt(s, i, u) ==
    [k \in 1..(IF i > Len(s) THEN i ELSE Len(s)) |->
        IF k = i THEN u ELSE IF k <= Len(s) THEN s[k] ELSE NoUrl]

\* while self.running:  (of _worker): where the loop test sends the thread
AfterLoopTestForever(r) == "get"
AfterLoopTest(r) == IF r THEN "get" ELSE "exited"

\* worker.join(timeout=1): the join gives up after the timeout
JoinTimedOutNever == FALSE
JoinTimedOut == TRUE

\* time.sleep(2 ** retry_count)
BackoffLinear(rc) == 2 * rc
Backoff(rc) == 2 ^ rc

\* for i in range(self.max_workers): threading.Thread(...).start()
SpawnedOneShort == Workers \ {max_workers}
Spawned == Workers

\* self.download_queue.put(url)  (of add_download)
EnqueueOnce(q, u) == IF \E i \in 1..Len(q) : q[i] = u THEN q ELSE Append(q, u)
Enqueue(q, u) == Append(q, u)

\* self.download_queue.put(url)  (of _worker's except block)
PutBackFirst(q, u) == <<u>> \o q
PutBack(q, u) == Append(q, u)

\* The dict get_status() builds: active is dict(self.active_downloads), a new dict
\* whose values are the same entry objects; the other containers are copies.
StatusValue ==
    [taken |-> TRUE,
     active |-> active_downloads,
     completed |-> Cardinality(completed),
     completed_urls |-> completed_urls,
     failed |-> Cardinality(failed),
     retry_counts |-> retry_counts,
     queued |-> Len(download_queue)]

NoStatus ==
    [taken |-> FALSE, active |-> EmptyDict, completed |-> 0, completed_urls |-> {},
     failed |-> 0, retry_counts |-> EmptyDict, queued |-> 0]

\* ---- __init__ --------------------------------------------------------------
InitWith(n) ==
    /\ is_remote \in BOOLEAN
    /\ running = TRUE
    /\ download_queue = <<>>
    /\ unfinished_tasks = 0
    /\ active_downloads = EmptyDict
    /\ heap = EmptyDict
    /\ completed = {}
    /\ completed_urls = {}
    /\ failed = {}
    /\ retry_counts = EmptyDict
    /\ lock = NoWorker
    /\ pc = [w \in Workers |-> "notstarted"]
    /\ url = [w \in Workers |-> NoUrl]
    /\ retry_count = [w \in Workers |-> 0]
    /\ downloaded = [w \in Workers |-> 0]
    /\ files \in SUBSET {FileName(u) : u \in Urls}
    /\ relay = [w \in Workers |-> "none"]
    /\ remote_files = {}
    /\ \E src \in [FileNames -> Urls] :
          /\ \A f \in FileNames : FileName(src[f]) = f
          /\ contents = [f \in FileNames |-> IF f \in files THEN Body(src[f]) ELSE <<>>]
    /\ unlinked = [w \in Workers |-> FALSE]
    /\ delay = [w \in Workers |-> 0]
    /\ joining = 0
    /\ streamed = {}
    /\ existed = {}
    /\ status = NoStatus
    /\ adds = n
    /\ submits = [u \in Urls |-> 0]
    /\ attempts = [u \in Urls |-> 0]
    /\ failures = [u \in Urls |-> 0]
    /\ first_outcome = [u \in Urls |-> "none"]
    /\ selected_items = {}
    /\ downloaded_items = {}
    /\ download_manager = FALSE
    /\ target_directory = FALSE
    /\ path_stack = <<>>
    /\ row_stack = <<>>
    /\ current_row = 1
    /\ in_menu = TRUE

Init == InitWith(MaxAdds)

\* ---- start(), stop(), add_download() ---------------------------------------
Start ==
    /\ UNCHANGED menu
    /\ \A w \in Workers : pc[w] = "notstarted"
    /\ pc' = [w \in Workers |-> IF w \in Spawned THEN "loop" ELSE pc[w]]
    /\ UNCHANGED <<relay, remote_files>>
    /\ UNCHANGED <<contents, unlinked, delay, joining, streamed, existed>>
    /\ UNCHANGED <<is_remote, running, download_queue, unfinished_tasks,
                   active_downloads, heap, completed, completed_urls, failed,
                   retry_counts, lock, url, retry_count, downloaded, files, status,
                   adds, submits, attempts, failures, first_outcome>>

\* self.running = False; the caller then is in the loop over self.workers (empty
\* when start() was not called), whose passes are the steps Join(w)
Stop ==
    /\ UNCHANGED menu
    /\ running
    /\ running' = FALSE
    /\ joining' = IF \A w \in Workers : pc[w] = "notstarted" THEN Returned ELSE 1
    /\ UNCHANGED <<relay, remote_files>>
    /\ UNCHANGED <<contents, unlinked, delay, streamed, existed>>
    /\ UNCHANGED <<is_remote, download_queue, unfinished_tasks, active_downloads,
                   heap, completed, completed_urls, failed, retry_counts, lock, pc,
                   url, retry_count, downloaded, files, status, adds, submits,
                   attempts, failures, first_outcome>>

\* worker.join(timeout=1): returns when the thread has ended or after the timeout
Join(w) ==
    /\ UNCHANGED menu
    /\ joining = w
    /\ pc[w] = "exited" \/ JoinTimedOut
    /\ joining' = w + 1
    /\ UNCHANGED <<is_remote, running, download_queue, unfinished_tasks,
                   active_downloads, heap, completed, completed_urls, failed,
                   retry_counts, lock, pc, url, retry_count, downloaded, files,
                   relay, remote_files, contents, unlinked, delay, streamed,
                   existed, status, adds, submits, attempts, failures,
                   first_outcome>>

add_download(u) ==
    /\ UNCHANGED menu
    /\ adds > 0
    /\ adds' = adds - 1
    /\ download_queue' = Enqueue(download_queue, u)
    /\ unfinished_tasks' = unfinished_tasks + 1
    /\ submits' = [submits EXCEPT ![u] = @ + 1]
    /\ UNCHANGED <<relay, remote_files>>
    /\ UNCHANGED <<contents, unlinked, delay, joining, streamed, existed>>
    /\ UNCHANGED <<is_remote, running, active_downloads, heap, completed,
                   completed_urls, failed, retry_counts, lock, pc, url, retry_count,
                   downloaded, files, status, attempts, failures, first_outcome>>

\* ---- _worker ---------------------------------------------------------------
\* while self.running:
LoopTest(w) ==
    /\ UNCHANGED menu
    /\ pc[w] = "loop"
    /\ pc' = [pc EXCEPT ![w] = AfterLoopTest(running)]
    /\ UNCHANGED <<relay, remote_files>>
    /\ UNCHANGED <<contents, unlinked, delay, joining, streamed, existed>>
    /\ UNCHANGED <<is_remote, running, download_queue, unfinished_tasks,
                   active_downloads, heap, completed, completed_urls, failed,
                   retry_counts, lock, url, retry_count, downloaded, files, status,
                   adds, submits, attempts, failures, first_outcome>>

\* url = self.download_queue.get(timeout=0.5)
QueueGet(w) ==
    /\ UNCHANGED menu
    /\ pc[w] = "get"
    /\ download_queue # <<>>
    /\ url' = [url EXCEPT ![w] = Head(download_queue)]
    /\ download_queue' = Tail(download_queue)
    /\ pc' = [pc EXCEPT ![w] = "claim"]
    /\ UNCHANGED <<relay, remote_files>>
    /\ UNCHANGED <<contents, unlinked, delay, joining, streamed, existed>>
    /\ UNCHANGED <<is_remote, running, unfinished_tasks, active_downloads, heap,
                   completed, completed_urls, failed, retry_counts, lock,
                   retry_count, downloaded, files, status, adds, submits, attempts,
                   failures, first_outcome>>

\* except queue.Empty: continue
QueueEmpty(w) ==
    /\ UNCHANGED menu
    /\ pc[w] = "get"
    /\ download_queue = <<>>
    /\ pc' = [pc EXCEPT ![w] = "loop"]
    /\ UNCHANGED <<relay, remote_files>>
    /\ UNCHANGED <<contents, unlinked, delay, joining, streamed, existed>>
    /\ UNCHANGED <<is_remote, running, download_queue, unfinished_tasks,
                   active_downloads, heap, completed, completed_urls, failed,
                   retry_counts, lock, url, retry_count, downloaded, files, status,
                   adds, submits, attempts, failures, first_outcome>>

\* with self.lock: self.active_downloads[url] = {'filename', 'progress': 0, 'total': 0}
Claim(w) ==
    /\ UNCHANGED menu
    /\ pc[w] = "claim"
    /\ lock = NoWorker
    /\ LET r == NewRef(heap)
           act == DictPut(active_downloads, url[w], r)
           h == DictPut(heap, r, [filename |-> FileName(url[w]), progress |-> 0,
                                  total |-> 0])
       IN /\ active_downloads' = act
          /\ heap' = Collect(h, act, status)
    /\ pc' = [pc EXCEPT ![w] = "download"]
    /\ UNCHANGED <<relay, remote_files>>
    /\ UNCHANGED <<contents, unlinked, delay, joining, streamed, existed>>
    /\ UNCHANGED <<is_remote, running, download_queue, unfinished_tasks, completed,
                   completed_urls, failed, retry_counts, lock, url, retry_count,
                   downloaded, files, status, adds, submits, attempts, failures,
                   first_outcome>>

\* ---- _download_file --------------------------------------------------------
\* local_path; if os.path.exists(local_path): return
Skip(w) ==
    /\ UNCHANGED menu
    /\ pc[w] = "download"
    /\ ~is_remote
    /\ FileName(url[w]) \in files
    /\ attempts' = [attempts EXCEPT ![url[w]] = @ + 1]
    /\ first_outcome' = [first_outcome EXCEPT ![url[w]] = Outcome(url[w], "skip")]
    /\ pc' = [pc EXCEPT ![w] = SkipTarget]
    /\ existed' = IF attempts[url[w]] = 0 THEN existed \cup {url[w]} ELSE existed
    /\ UNCHANGED <<relay, remote_files>>
    /\ UNCHANGED <<contents, unlinked, delay, joining, streamed>>
    /\ UNCHANGED <<is_remote, running, download_queue, unfinished_tasks,
                   active_downloads, heap, completed, completed_urls, failed,
                   retry_counts, lock, url, retry_count, downloaded, files, status,
                   adds, submits, failures>>

\* r = requests.get(url, stream=True, timeout=30); r.raise_for_status()
\* ok = FALSE: a timeout or a refused connection (retryable), a 5xx (retryable)
\* or a 4xx (terminal) response raises.
Request(w, ok, kind) ==
    /\ UNCHANGED menu
    /\ pc[w] = "download"
    /\ is_remote \/ FileName(url[w]) \notin files
    /\ attempts' = [attempts EXCEPT ![url[w]] = @ + 1]
    /\ IF ok
       THEN /\ pc' = [pc EXCEPT ![w] = "open"]
            /\ UNCHANGED <<failures, first_outcome>>
       ELSE /\ pc' = [pc EXCEPT ![w] = ErrorTarget]
            /\ failures' = [failures EXCEPT ![url[w]] = @ + 1]
            /\ first_outcome' = [first_outcome EXCEPT ![url[w]] = Outcome(url[w], kind)]
    /\ existed' = IF attempts[url[w]] = 0 /\ is_remote /\ FileName(url[w]) \in remote_files
                  THEN existed \cup {url[w]}
                  ELSE existed
    /\ UNCHANGED <<relay, remote_files>>
    /\ UNCHANGED <<contents, unlinked, delay, joining, streamed>>
    /\ UNCHANGED <<is_remote, running, download_queue, unfinished_tasks,
                   active_downloads, heap, completed, completed_urls, failed,
                   retry_counts, lock, url, retry_count, downloaded, files, status,
                   adds, submits>>

\* with open(local_path, 'wb') as f: downloaded = 0
\* ok = FALSE: the file cannot be created (a terminal filesystem failure).
Open(w, ok) ==
    /\ UNCHANGED menu
    /\ pc[w] = "open"
    /\ IF ok
       THEN /\ files' = files \cup {FileName(url[w])}
            /\ contents' = [contents EXCEPT ![FileName(url[w])] = <<>>]
            /\ unlinked' = [unlinked EXCEPT ![w] = FALSE]
            /\ pc' = [pc EXCEPT ![w] = "stream"]
            /\ UNCHANGED <<failures, first_outcome>>
       ELSE /\ pc' = [pc EXCEPT ![w] = ErrorTarget]
            /\ failures' = [failures EXCEPT ![url[w]] = @ + 1]
            /\ first_outcome' = [first_outcome EXCEPT ![url[w]] = Outcome(url[w], "terminal")]
            /\ UNCHANGED <<files, contents, unlinked>>
    /\ downloaded' = [downloaded EXCEPT ![w] = 0]
    /\ UNCHANGED <<relay, remote_files>>
    /\ UNCHANGED <<delay, joining, streamed, existed>>
    /\ UNCHANGED <<is_remote, running, download_queue, unfinished_tasks,
                   active_downloads, heap, completed, completed_urls, failed,
                   retry_counts, lock, url, retry_count, status, adds, submits,
                   attempts>>

\* for chunk in r.iter_content(...): f.write(chunk); downloaded += len(chunk)
\* with self.lock: if url in self.active_downloads: progress, total = ...
Chunk(w) ==
    /\ UNCHANGED menu
    /\ pc[w] = "stream"
    /\ downloaded[w] < BodyLen
    /\ lock = NoWorker
    /\ downloaded' = [downloaded EXCEPT ![w] = @ + 1]
    /\ heap' = IF url[w] \in DOMAIN active_downloads
               THEN [heap EXCEPT ![active_downloads[url[w]]] =
                        [@ EXCEPT !.progress = downloaded[w] + 1,
                                  !.total = ContentLength(url[w])]]
               ELSE heap
    /\ contents' = IF unlinked[w]
                   THEN contents
                   ELSE [contents EXCEPT ![FileName(url[w])] =
                            WriteAt(@, downloaded[w] + 1, url[w])]
    /\ UNCHANGED <<relay, remote_files>>
    /\ UNCHANGED <<unlinked, delay, joining, streamed, existed>>
    /\ UNCHANGED <<is_remote, running, download_queue, unfinished_tasks,
                   active_downloads, completed, completed_urls, failed,
                   retry_counts, lock, pc, url, retry_count, files, status, adds,
                   submits, attempts, failures, first_outcome>>

\* iter_content or f.write raises part-way: a reset connection or a truncated
\* body (retryable), a full disk (terminal). The file stays where it is.
StreamError(w, kind) ==
    /\ UNCHANGED menu
    /\ pc[w] = "stream"
    /\ downloaded[w] < BodyLen
    /\ pc' = [pc EXCEPT ![w] = ErrorTarget]
    /\ downloaded' = [downloaded EXCEPT ![w] = 0]
    /\ failures' = [failures EXCEPT ![url[w]] = @ + 1]
    /\ first_outcome' = [first_outcome EXCEPT ![url[w]] = Outcome(url[w], kind)]
    /\ UNCHANGED <<relay, remote_files>>
    /\ UNCHANGED <<contents, unlinked, delay, joining, streamed, existed>>
    /\ UNCHANGED <<is_remote, running, download_queue, unfinished_tasks,
                   active_downloads, heap, completed, completed_urls, failed,
                   retry_counts, lock, url, retry_count, files, status, adds,
                   submits, attempts>>

\* end of the body: the file is closed; if self.is_remote: go on to scp,
\* else _download_file returns.
Finish(w) ==
    /\ UNCHANGED menu
    /\ pc[w] = "stream"
    /\ downloaded[w] = BodyLen
    /\ downloaded' = [downloaded EXCEPT ![w] = 0]
    /\ IF is_remote
       THEN /\ pc' = [pc EXCEPT ![w] = "scp"]
            /\ UNCHANGED first_outcome
       ELSE /\ pc' = [pc EXCEPT ![w] = "success"]
            /\ first_outcome' = [first_outcome EXCEPT ![url[w]] = Outcome(url[w], "ok")]
    /\ streamed' = streamed \cup {url[w]}
    /\ UNCHANGED <<relay, remote_files>>
    /\ UNCHANGED <<contents, unlinked, delay, joining, existed>>
    /\ UNCHANGED <<is_remote, running, download_queue, unfinished_tasks,
                   active_downloads, heap, completed, completed_urls, failed,
                   retry_counts, lock, url, retry_count, files, status, adds,
                   submits, attempts, failures>>

\* subprocess.run(['scp', local_path, remote_file], capture_output=True, text=True,
\*                check=False): the exit status is not looked at.
\* ok = FALSE: scp exits non-zero; it cannot succeed without the local file.
Scp(w, ok) ==
    /\ UNCHANGED menu
    /\ pc[w] = "scp"
    /\ ok => FileName(url[w]) \in files
    /\ relay' = [relay EXCEPT ![w] = IF ok THEN "ok" ELSE "failed"]
    /\ remote_files' = IF ok THEN remote_files \cup {FileName(url[w])} ELSE remote_files
    /\ pc' = [pc EXCEPT ![w] = "remove"]
    /\ UNCHANGED <<contents, unlinked, delay, joining, streamed, existed>>
    /\ UNCHANGED <<is_remote, running, download_queue, unfinished_tasks,
                   active_downloads, heap, completed, completed_urls, failed,
                   retry_counts, lock, url, retry_count, downloaded, files, status,
                   adds, submits, attempts, failures, first_outcome>>

\* os.remove(local_path), whatever scp returned; it raises FileNotFoundError when
\* the file is no longer there.
Remove(w) ==
    /\ UNCHANGED menu
    /\ pc[w] = "remove"
    /\ IF FileName(url[w]) \in files
       THEN /\ files' = RemoveLocal(files, FileName(url[w]))
            /\ contents' = [contents EXCEPT ![FileName(url[w])] =
                                IF FileName(url[w]) \in files' THEN @ ELSE <<>>]
            /\ unlinked' = [v \in Workers |->
                                \/ unlinked[v]
                                \/ /\ FileName(url[w]) \notin files'
                                   /\ pc[v] = "stream"
                                   /\ FileName(url[v]) = FileName(url[w])]
            /\ pc' = [pc EXCEPT ![w] = "success"]
            /\ first_outcome' = [first_outcome EXCEPT ![url[w]] = Outcome(url[w], "ok")]
            /\ UNCHANGED failures
       ELSE /\ pc' = [pc EXCEPT ![w] = ErrorTarget]
            /\ failures' = [failures EXCEPT ![url[w]] = @ + 1]
            /\ first_outcome' = [first_outcome EXCEPT ![url[w]] = Outcome(url[w], "terminal")]
            /\ UNCHANGED <<files, contents, unlinked>>
    /\ UNCHANGED <<delay, joining, streamed, existed>>
    /\ UNCHANGED <<is_remote, running, download_queue, unfinished_tasks,
                   active_downloads, heap, completed, completed_urls, failed,
                   retry_counts, lock, url, retry_count, downloaded, relay,
                   remote_files, status, adds, submits, attempts>>

\* ---- _worker, after _download_file -------------------------------------------
\* with self.lock: completed.add; completed_urls.add; del active_downloads[url];
\*                 del retry_counts[url]
Success(w) ==
    /\ UNCHANGED menu
    /\ pc[w] = "success"
    /\ lock = NoWorker
    /\ completed' = RecordCompleted(completed, url[w])
    /\ completed_urls' = RecordCompletedUrl(completed_urls, url[w])
    /\ active_downloads' = DictDel(active_downloads, url[w])
    /\ heap' = Collect(heap, active_downloads', status)
    /\ retry_counts' = ClearRetry(retry_counts, url[w])
    /\ pc' = [pc EXCEPT ![w] = "task_done"]
    /\ UNCHANGED <<relay, remote_files>>
    /\ UNCHANGED <<contents, unlinked, delay, joining, streamed, existed>>
    /\ UNCHANGED <<is_remote, running, download_queue, unfinished_tasks, failed,
                   lock, url, retry_count, downloaded, files, status, adds, submits,
                   attempts, failures, first_outcome>>

\* except Exception: with self.lock: retry_count = self.retry_counts.get(url, 0)
\* if retry_count < self.max_retries: self.retry_counts[url] = retry_count + 1
\* else: self.failed.add(url)
Except(w) ==
    /\ UNCHANGED menu
    /\ pc[w] = "except"
    /\ lock = NoWorker
    /\ lock' = w
    /\ LET rc == DictGet(retry_counts, url[w], 0)
       IN /\ retry_count' = [retry_count EXCEPT ![w] = rc]
          /\ IF ShouldRetry(rc)
             THEN /\ retry_counts' = DictPut(retry_counts, url[w], NextRetryCount(rc))
                  /\ pc' = [pc EXCEPT ![w] = "sleep"]
                  /\ UNCHANGED failed
             ELSE /\ failed' = RecordFailed(failed, url[w])
                  /\ pc' = [pc EXCEPT ![w] = "release"]
                  /\ UNCHANGED retry_counts
    /\ UNCHANGED <<relay, remote_files>>
    /\ UNCHANGED <<contents, unlinked, delay, joining, streamed, existed>>
    /\ UNCHANGED <<is_remote, running, download_queue, unfinished_tasks,
                   active_downloads, heap, completed, completed_urls, url,
                   downloaded, files, status, adds, submits, attempts, failures,
                   first_outcome>>

\* time.sleep(2 ** retry_count); self.download_queue.put(url), the lock held
Requeue(w) ==
    /\ UNCHANGED menu
    /\ pc[w] = "sleep"
    /\ lock = w
    /\ delay' = [delay EXCEPT ![w] = Backoff(retry_count[w])]
    /\ download_queue' = PutBack(download_queue, url[w])
    /\ unfinished_tasks' = unfinished_tasks + 1
    /\ pc' = [pc EXCEPT ![w] = "release"]
    /\ UNCHANGED <<relay, remote_files>>
    /\ UNCHANGED <<contents, unlinked, joining, streamed, existed>>
    /\ UNCHANGED <<is_remote, running, active_downloads, heap, completed,
                   completed_urls, failed, retry_counts, lock, url, retry_count,
                   downloaded, files, status, adds, submits, attempts, failures,
                   first_outcome>>

\* if url in self.active_downloads: del self.active_downloads[url]; the lock is released
Release(w) ==
    /\ UNCHANGED menu
    /\ pc[w] = "release"
    /\ lock = w
    /\ active_downloads' = ReleaseEntry(active_downloads, url[w])
    /\ heap' = Collect(heap, active_downloads', status)
    /\ lock' = NoWorker
    /\ retry_count' = [retry_count EXCEPT ![w] = 0]
    /\ delay' = [delay EXCEPT ![w] = 0]
    /\ pc' = [pc EXCEPT ![w] = "task_done"]
    /\ UNCHANGED <<relay, remote_files>>
    /\ UNCHANGED <<contents, unlinked, joining, streamed, existed>>
    /\ UNCHANGED <<is_remote, running, download_queue, unfinished_tasks, completed,
                   completed_urls, failed, retry_counts, url, downloaded, files,
                   status, adds, submits, attempts, failures, first_outcome>>

\* finally: self.download_queue.task_done()
TaskDone(w) ==
    /\ UNCHANGED menu
    /\ pc[w] = "task_done"
    /\ unfinished_tasks' = TaskDoneCount(unfinished_tasks)
    /\ url' = [url EXCEPT ![w] = NoUrl]
    /\ pc' = [pc EXCEPT ![w] = "loop"]
    /\ relay' = [relay EXCEPT ![w] = "none"]
    /\ UNCHANGED remote_files
    /\ UNCHANGED <<contents, unlinked, delay, joining, streamed, existed>>
    /\ UNCHANGED <<is_remote, running, download_queue, active_downloads, heap,
                   completed, completed_urls, failed, retry_counts, lock,
                   retry_count, downloaded, files, status, adds, submits, attempts,
                   failures, first_outcome>>

ErrorKinds == {"retryable", "terminal"}

Next ==
    \/ Start
    \/ Stop
    \/ \E u \in Urls : add_download(u)
    \/ \E w \in Workers : LoopTest(w)
    \/ \E w \in Workers : QueueGet(w)
    \/ \E w \in Workers : QueueEmpty(w)
    \/ \E w \in Workers : Claim(w)
    \/ \E w \in Workers : Skip(w)
    \/ \E w \in Workers, ok \in BOOLEAN, kind \in ErrorKinds : Request(w, ok, kind)
    \/ \E w \in Workers, ok \in BOOLEAN : Open(w, ok)
    \/ \E w \in Workers : Chunk(w)
    \/ \E w \in Workers, kind \in ErrorKinds : StreamError(w, kind)
    \/ \E w \in Workers : Finish(w)
    \/ \E w \in Workers, ok \in BOOLEAN : Scp(w, ok)
    \/ \E w \in Workers : Remove(w)
    \/ \E w \in Workers : Success(w)
    \/ \E w \in Workers : Except(w)
    \/ \E w \in Workers : Requeue(w)
    \/ \E w \in Workers : Release(w)
    \/ \E w \in Workers : TaskDone(w)

Spec == Init /\ [][Next]_vars

\* ---- get_status() and its caller ---------------------------------------------
\* with self.lock: return {...}
get_status ==
    /\ UNCHANGED menu
    /\ lock = NoWorker
    /\ status' = StatusValue
    /\ heap' = Collect(heap, active_downloads, status')
    /\ UNCHANGED mgr

\* The caller empties the containers of the returned dict:
\* status['active'].clear(); status['completed_urls'].clear(); status['retry_counts'].clear()
MutateStatus ==
    /\ UNCHANGED menu
    /\ status.taken
    /\ status' = [status EXCEPT !.active = EmptyDict, !.completed_urls = {},
                                !.retry_counts = EmptyDict]
    /\ status' # status
    /\ heap' = Collect(heap, active_downloads, status')
    /\ UNCHANGED mgr

\* The caller changes an entry of the returned 'active': status['active'][u]['progress'] = -1
MutateEntry(u) ==
    /\ UNCHANGED menu
    /\ status.taken
    /\ u \in DOMAIN status.active
    /\ heap' = [heap EXCEPT ![status.active[u]] = [@ EXCEPT !.progress = -1]]
    /\ UNCHANGED <<mgr, status>>

NextObserved ==
    \/ Next
    \/ get_status
    \/ MutateStatus
    \/ \E u \in Urls : MutateEntry(u)

InitObserved == InitWith(MaxAddsObserved)

SpecObserved == InitObserved /\ [][NextObserved]_vars

\* ---- stop() to its return, and the scheduling of the threads -----------------
\* the steps of worker thread w
WorkerStep(w) ==
    \/ LoopTest(w) \/ QueueGet(w) \/ QueueEmpty(w) \/ Claim(w) \/ Skip(w)
    \/ \E ok \in BOOLEAN, kind \in ErrorKinds : Request(w, ok, kind)
    \/ \E ok \in BOOLEAN : Open(w, ok)
    \/ Chunk(w)
    \/ \E kind \in ErrorKinds : StreamError(w, kind)
    \/ Finish(w)
    \/ \E ok \in BOOLEAN : Scp(w, ok)
    \/ Remove(w) \/ Success(w) \/ Except(w) \/ Requeue(w) \/ Release(w)
    \/ TaskDone(w)

NextStop ==
    \/ Next
    \/ \E w \in Workers : Join(w)

InitFair == InitWith(MaxAddsFair)

\* The caller of stop() is scheduled and its joins time out; nothing is assumed
\* of the workers, whose transfers may never end.
SpecStop == InitFair /\ [][NextStop]_vars /\ \A w \in Workers : WF_vars(Join(w))

\* Every worker thread is scheduled and every transfer attempt terminates.
SpecFair == InitFair /\ [][NextStop]_vars /\ \A w \in Workers : WF_vars(WorkerStep(w))

\* ---- curses_menu: the key handlers ---------------------------------------------
\* distro_dict as parsed: one distro per URL index, distro g listing the entries
\* "name: url" of the URLs g..NumUrls, so that the last URL is under every distro
distro_dict == [g \in Urls |-> [i \in 1..(NumUrls - g + 1) |-> g + i - 1]]

\* An item path is <<g>> for distro g and <<g, i>> for entry i of its list.
Items == {<<g>> : g \in Urls}
            \cup {p \in Urls \X (1..NumUrls) : p[2] <= Len(distro_dict[p[1]])}

\* menu_stack[-1]: the sorted distro names, or the entries of the distro entered
current_menu == IF path_stack = <<>> THEN [g \in Urls |-> g]
                ELSE [i \in 1..Len(distro_dict[path_stack[1]]) |-> i]

\* "/".join(path_stack + [current_menu[current_row]])
item_path == Append(path_stack, current_menu[current_row])

\* The walk ends with [] as soon as a part is looked up in a node that is not a
\* dict, which is the case of an entry of a distro's list.
extract_urls_for_path(item) ==
    IF Len(item) = 1 THEN distro_dict[item[1]] ELSE <<>>

\* the URLs the final pass over selected_items returns for an item: those of the
\* distro's list, or the one of the entry matched in it
UrlsUnder(item) ==
    IF Len(item) = 1
    THEN {distro_dict[item[1]][i] : i \in 1..Len(distro_dict[item[1]])}
    ELSE {distro_dict[item[1]][item[2]]}

\* if url not in downloaded_items:
AlreadyQueuedNever(u, done) == FALSE
AlreadyQueued(u, done) == u \in done

RECURSIVE QueueUrls(_, _, _, _)
\* for url in urls: if url not in downloaded_items:
\*     download_manager.add_download(url); downloaded_items.add(url)
QueueUrls(urls, q, done, calls) ==
    IF urls = <<>>
    THEN [queue |-> q, done |-> done, calls |-> calls]
    ELSE IF AlreadyQueued(Head(urls), done)
         THEN QueueUrls(Tail(urls), q, done, calls)
         ELSE QueueUrls(Tail(urls), Enqueue(q, Head(urls)), done \cup {Head(urls)},
                        [calls EXCEPT ![Head(urls)] = @ + 1])

RECURSIVE UrlsOfItems(_)
\* the URLs of extract_urls_for_path over a sequence of item paths
UrlsOfItems(items) ==
    IF items = <<>> THEN <<>>
    ELSE extract_urls_for_path(Head(items)) \o UrlsOfItems(Tail(items))

\* the items of a set for which extract_urls_for_path finds URLs; the others add
\* nothing to the queue wherever the loop over the set visits them
Yielding(S) == {item \in S : extract_urls_for_path(item) # <<>>}

RECURSIVE Orders(_)
\* the orders in which `for item_path in selected_items` can visit a set
Orders(S) ==
    IF S = {} THEN {<<>>}
    ELSE UNION {{<<x>> \o s : s \in Orders(S \ {x})} : x \in S}

RECURSIVE SumOf(_, _)
SumOf(f, n) == IF n = 0 THEN 0 ELSE f[n] + SumOf(f, n - 1)

\* the add_download() calls of one handler applied to the manager
Submit(r) ==
    /\ download_queue' = r.queue
    /\ downloaded_items' = r.done
    /\ submits' = [u \in Urls |-> submits[u] + r.calls[u]]
    /\ unfinished_tasks' = unfinished_tasks + SumOf(r.calls, NumUrls)

NoCalls == [u \in Urls |-> 0]

\* the manager's variables no key handler touches
untouched == <<is_remote, active_downloads, heap, completed, completed_urls, failed,
               retry_counts, lock, url, retry_count, downloaded, files, relay,
               remote_files, contents, unlinked, delay, streamed, existed, status,
               adds, attempts, failures, first_outcome>>

\* KEY_UP, 'k': current_row = (current_row - 1) % len(current_menu); rows count from 1 here
KeyUp ==
    /\ in_menu
    /\ current_row' = ((current_row - 2) % Len(current_menu)) + 1
    /\ UNCHANGED <<selected_items, downloaded_items, download_manager,
                   target_directory, path_stack, row_stack, in_menu>>
    /\ UNCHANGED <<mgr, heap, status>>

\* KEY_DOWN, 'j': current_row = (current_row + 1) % len(current_menu)
KeyDown ==
    /\ in_menu
    /\ current_row' = (current_row % Len(current_menu)) + 1
    /\ UNCHANGED <<selected_items, downloaded_items, download_manager,
                   target_directory, path_stack, row_stack, in_menu>>
    /\ UNCHANGED <<mgr, heap, status>>

\* ' ': toggle the item; when it becomes selected and a manager exists, queue
\* the URLs extract_urls_for_path finds for it
KeySpace ==
    /\ in_menu
    /\ IF item_path \in selected_items
       THEN /\ selected_items' = selected_items \ {item_path}
            /\ UNCHANGED <<download_queue, downloaded_items, submits, unfinished_tasks>>
       ELSE /\ selected_items' = selected_items \cup {item_path}
            /\ IF download_manager
               THEN Submit(QueueUrls(extract_urls_for_path(item_path),
                                     download_queue, downloaded_items, NoCalls))
               ELSE UNCHANGED <<download_queue, downloaded_items, submits,
                                unfinished_tasks>>
    /\ UNCHANGED <<download_manager, target_directory, path_stack, row_stack,
                   current_row, in_menu>>
    /\ UNCHANGED <<running, pc, joining>>
    /\ UNCHANGED untouched

\* 'a', 'A': for item in current_menu: selected_items.add(item_path)
KeySelectAll ==
    /\ in_menu
    /\ selected_items' = selected_items
          \cup {Append(path_stack, current_menu[r]) : r \in 1..Len(current_menu)}
    /\ UNCHANGED <<downloaded_items, download_manager, target_directory, path_stack,
                   row_stack, current_row, in_menu>>
    /\ UNCHANGED <<mgr, heap, status>>

\* 'd', 'D': the prompt returns a directory or nothing. With a directory and no
\* manager yet: a remote target whose SSH test failed can be cancelled with
\* Ctrl+C; otherwise the manager is created and started and the URLs of the items
\* selected so far are queued.
KeyDirectory(entered, cancelled) ==
    /\ in_menu
    /\ IF entered /\ ~download_manager
       THEN IF is_remote /\ cancelled
            THEN /\ target_directory' = FALSE
                 /\ UNCHANGED <<download_manager, downloaded_items, download_queue,
                                submits, unfinished_tasks, pc>>
            ELSE /\ target_directory' = TRUE
                 /\ download_manager' = TRUE
                 /\ pc' = [w \in Workers |-> IF w \in Spawned THEN "loop" ELSE pc[w]]
                 /\ \E order \in Orders(Yielding(selected_items)) :
                       Submit(QueueUrls(UrlsOfItems(order), download_queue,
                                        downloaded_items, NoCalls))
       ELSE /\ target_directory' = entered
            /\ UNCHANGED <<download_manager, downloaded_items, download_queue,
                           submits, unfinished_tasks, pc>>
    /\ UNCHANGED <<selected_items, path_stack, row_stack, current_row, in_menu>>
    /\ UNCHANGED <<running, joining>>
    /\ UNCHANGED untouched

\* Enter, KEY_RIGHT, 'l': at the top level a distro with entries is entered; an
\* empty one, and an entry inside a list, is toggled, and nothing is queued
KeyEnter ==
    /\ in_menu
    /\ IF path_stack = <<>> /\ distro_dict[current_menu[current_row]] # <<>>
       THEN /\ row_stack' = Append(row_stack, current_row)
            /\ path_stack' = Append(path_stack, current_menu[current_row])
            /\ current_row' = 1
            /\ UNCHANGED selected_items
       ELSE /\ selected_items' = IF item_path \in selected_items
                                 THEN selected_items \ {item_path}
                                 ELSE selected_items \cup {item_path}
            /\ UNCHANGED <<row_stack, path_stack, current_row>>
    /\ UNCHANGED <<downloaded_items, download_manager, target_directory, in_menu>>
    /\ UNCHANGED <<mgr, heap, status>>

\* ESC, KEY_LEFT, 'h': back to the menu above
KeyBack ==
    /\ in_menu
    /\ Len(path_stack) > 0
    /\ path_stack' = SubSeq(path_stack, 1, Len(path_stack) - 1)
    /\ current_row' = row_stack[Len(row_stack)]
    /\ row_stack' = SubSeq(row_stack, 1, Len(row_stack) - 1)
    /\ UNCHANGED <<selected_items, downloaded_items, download_manager,
                   target_directory, in_menu>>
    /\ UNCHANGED <<mgr, heap, status>>

\* 'q', 'Q': break; if download_manager: download_manager.stop()
KeyQuit ==
    /\ in_menu
    /\ in_menu' = FALSE
    /\ IF download_manager
       THEN /\ running' = FALSE
            /\ joining' = IF \A w \in Workers : pc[w] = "notstarted" THEN Returned ELSE 1
       ELSE UNCHANGED <<running, joining>>
    /\ UNCHANGED <<selected_items, downloaded_items, download_manager,
                   target_directory, path_stack, row_stack, current_row>>
    /\ UNCHANGED <<download_queue, submits, unfinished_tasks, pc>>
    /\ UNCHANGED untouched

NextMenu ==
    \/ KeyUp
    \/ KeyDown
    \/ KeySpace
    \/ KeySelectAll
    \/ \E entered \in BOOLEAN, cancelled \in BOOLEAN : KeyDirectory(entered, cancelled)
    \/ KeyEnter
    \/ KeyBack
    \/ KeyQuit
    \/ \E w \in Workers : Join(w)

\* the menu is the manager's only caller
InitMenu == InitWith(0)

\* The session of the operator at the menu; the worker threads are not scheduled.
SpecMenu == InitMenu /\ [][NextMenu]_vars

\* ---- properties ------------------------------------------------------------
InQueue(u) == \E i \in 1..Len(download_queue) : download_queue[i] = u
Held(u) == \E w \in Workers : url[w] = u
\* get_status() can take the lock and return StatusValue
Observable == lock = NoWorker
\* the queue is empty and no worker holds a URL
Drained == download_queue = <<>> /\ \A w \in Workers : url[w] = NoUrl

\* C1: in every snapshot get_status() can return, no URL is in two of the queue,
\* active, completed_urls and failed.
NoDoubleBooking ==
    Observable =>
        \A u \in Urls :
            (IF InQueue(u) THEN 1 ELSE 0)
            + (IF u \in DOMAIN StatusValue.active THEN 1 ELSE 0)
            + (IF u \in StatusValue.completed_urls THEN 1 ELSE 0)
            + (IF u \in failed THEN 1 ELSE 0) <= 1

\* C2: in every snapshot get_status() can return, every URL submitted with
\* add_download() is queued, active, completed or failed.
NoLossOfObservability ==
    Observable =>
        \A u \in Urls :
            submits[u] > 0 =>
                \/ InQueue(u)
                \/ u \in DOMAIN StatusValue.active
                \/ u \in StatusValue.completed_urls
                \/ u \in failed

\* C3: the completed set and the failed set are disjoint in every reachable state.
CompletedFailedDisjoint ==
    /\ completed \cap failed = {}
    /\ completed_urls \cap failed = {}

\* C4: once the pool has drained, a URL submitted once whose every transfer
\* attempt failed is in failed, and max_retries + 1 attempts were made for it.
BoundedRetries ==
    \A u \in Urls :
        (Drained /\ submits[u] = 1 /\ attempts[u] >= 1 /\ failures[u] = attempts[u])
            => (u \in failed /\ attempts[u] = max_retries + 1)

BoundedRetriesWitness ==
    \E u \in Urls :
        /\ Drained /\ submits[u] = 1
        /\ failures[u] = attempts[u] /\ attempts[u] = max_retries + 1
        /\ u \in failed

\* C5: in every state in which a URL is in failed, retry_counts has no entry for it.
FailedHasNoRetryRecord == \A u \in failed : u \notin DOMAIN retry_counts

\* C6: a URL (submitted once) whose first transfer attempt failed with a terminal
\* error has had exactly one attempt, is never queued again, and is in failed as
\* soon as the worker has let go of it.
TerminalShortCircuit ==
    \A u \in Urls :
        (submits[u] = 1 /\ first_outcome[u] = "terminal")
            => /\ attempts[u] = 1
               /\ ~InQueue(u)
               /\ (~Held(u) => u \in failed)

\* C7: retry_counts[url] stays within 0..max_retries, and a failure of a URL whose
\* count is max_retries puts the URL in failed and leads to no re-queue.
RetryCountsBounded ==
    /\ [](\A u \in DOMAIN retry_counts : retry_counts[u] \in 0..max_retries)
    /\ [][\A w \in Workers :
            (pc[w] = "except" /\ pc'[w] # "except"
             /\ DictGet(retry_counts, url[w], 0) = max_retries)
                => /\ url[w] \in failed'
                   /\ pc'[w] = "release"
                   /\ download_queue' = download_queue
                   /\ retry_counts' = retry_counts]_vars

RetryCountsBoundedWitness ==
    \E w \in Workers :
        /\ pc[w] = "release"
        /\ url[w] \in failed
        /\ DictGet(retry_counts, url[w], 0) = max_retries

\* C8: a URL in failed stays in failed, and in no later snapshot is it queued,
\* active or completed.
FailedIsTerminal ==
    [][\A u \in failed :
        /\ u \in failed'
        /\ Observable' => /\ ~InQueue(u)'
                          /\ u \notin DOMAIN active_downloads'
                          /\ u \notin completed'
                          /\ u \notin completed_urls']_vars

\* C9: once the pool has drained, a URL submitted once that failed twice and then
\* succeeded is in completed, not in failed and has no retry record; and the step
\* that records a URL as completed leaves no retry record for it.
RetryThenSuccess ==
    /\ [](\A u \in Urls :
            (Drained /\ submits[u] = 1 /\ attempts[u] = 3 /\ failures[u] = 2)
                => /\ u \in completed /\ u \in completed_urls
                   /\ u \notin failed
                   /\ u \notin DOMAIN retry_counts)
    /\ [][\A w \in Workers :
            (pc[w] = "success" /\ pc'[w] # "success")
                => /\ url[w] \in completed'
                   /\ url[w] \notin DOMAIN retry_counts']_vars

RetryThenSuccessWitness ==
    \E u \in Urls :
        /\ Drained /\ submits[u] = 1
        /\ attempts[u] = 3 /\ failures[u] = 2
        /\ first_outcome[u] \in ErrorKinds
        /\ u \in completed

\* what the manager's active_downloads holds, entries included
ManagerView == [u \in DOMAIN active_downloads |-> heap[active_downloads[u]]]
\* what the returned status' 'active' holds, entries included
StatusView == [u \in DOMAIN status.active |-> heap[status.active[u]]]

\* C10: a step of the caller of get_status() changes nothing of what the manager
\* holds, entries of active_downloads included, and a step of a worker changes
\* nothing of a status already returned.
SnapshotIsolation ==
    [][/\ (mgr' = mgr) => (ManagerView' = ManagerView)
       /\ (mgr' # mgr /\ status' = status) => (StatusView' = StatusView)]_vars

SkipIsNotFailure ==
    /\ [](\A u \in Urls :
            (submits[u] = 1 /\ first_outcome[u] = "skip")
                => /\ u \notin failed
                   /\ u \notin DOMAIN retry_counts
                   /\ ~InQueue(u)
                   /\ failures[u] = 0)
    /\ [][\A w \in Workers :
            (pc[w] = "download" /\ pc'[w] # "download" /\ ~is_remote
             /\ FileName(url[w]) \in files)
                => /\ pc'[w] = "success"
                   /\ failed' = failed
                   /\ download_queue' = download_queue
                   /\ retry_counts' = retry_counts
                   /\ failures' = failures]_vars
    /\ [][\A w \in Workers :
            (pc[w] = "success" /\ pc'[w] # "success")
                => /\ pc'[w] = "task_done"
                   /\ failed' = failed
                   /\ download_queue' = download_queue
                   /\ url[w] \notin DOMAIN retry_counts']_vars

SkipIsNotFailureWitness ==
    \E w \in Workers :
        /\ pc[w] = "task_done"
        /\ submits[url[w]] = 1 /\ first_outcome[url[w]] = "skip"
        /\ url[w] \in completed

\* C13: in local mode, when a transfer attempt fails while the body is streamed,
\* no file is left at the destination as the attempt ends.
PartialFileRemoved ==
    [][\A w \in Workers :
        (~is_remote /\ pc[w] = "stream" /\ pc'[w] = "except")
            => FileName(url[w]) \notin files']_vars

\* the URLs submitted so far
Submitted == {u \in Urls : submits[u] > 0}
\* worker threads that have been started and have not returned from _worker
LiveWorkers == {w \in Workers : pc[w] \notin {"notstarted", "exited"}}
Started == \E w \in Workers : pc[w] # "notstarted"

\* C14: once the pool has drained, with n distinct URLs submitted once each and
\* every transfer successful at the first attempt, get_status() reports
\* completed = n, failed = 0, no active entry, queued = 0 and n downloaded_files.
AllSucceedScenario ==
    (/\ Drained /\ Started /\ Submitted # {}
     /\ \A u \in Submitted :
            submits[u] = 1 /\ attempts[u] = 1 /\ first_outcome[u] = "ok")
        => /\ StatusValue.completed = Cardinality(Submitted)
           /\ StatusValue.failed = 0
           /\ DOMAIN StatusValue.active = {}
           /\ StatusValue.queued = 0
           /\ "downloaded_files" \in DOMAIN StatusValue
           /\ Len(StatusValue.downloaded_files) = Cardinality(Submitted)

\* C15: between start() and stop() every worker thread stays alive, whatever the
\* transfers raise: an error of _download_file lands in the except block, which
\* either counts a retry and re-queues the URL or adds the URL to failed.
WorkersAbsorbErrors ==
    /\ []((Started /\ running) => LiveWorkers = Workers)
    /\ [][\A w \in Workers :
            (pc'[w] # pc[w] /\ failures' # failures) => pc'[w] = "except"]_vars
    /\ [][\A w \in Workers :
            (pc[w] = "except" /\ pc'[w] # "except")
                => \/ pc'[w] = "sleep" /\ url[w] \in DOMAIN retry_counts'
                   \/ pc'[w] = "release" /\ url[w] \in failed']_vars
    /\ [][\A w \in Workers :
            (pc[w] = "sleep" /\ pc'[w] # "sleep")
                => /\ pc'[w] = "release"
                   /\ download_queue' = Append(download_queue, url[w])]_vars
    /\ [][\A w \in Workers :
            (pc[w] = "release" /\ pc'[w] # "release") => pc'[w] = "task_done"]_vars
    /\ [][\A w \in Workers :
            (pc[w] = "task_done" /\ pc'[w] # "task_done") => pc'[w] = "loop"]_vars

WorkersAbsorbErrorsWitness ==
    /\ running /\ LiveWorkers = Workers
    /\ \E u \in failed : failures[u] = max_retries + 1
    /\ \E u \in Urls, w \in Workers : InQueue(u) /\ failures[u] > 0 /\ pc[w] = "get"

\* C16: with a remote destination, os.remove leaves the local file in place when
\* scp has failed; a local file is deleted only by a worker whose scp succeeded.
LocalCopyKeptOnRelayFailure ==
    [][/\ \A w \in Workers :
            (is_remote /\ pc[w] = "remove" /\ relay[w] = "failed"
             /\ FileName(url[w]) \in files)
                => FileName(url[w]) \in files'
       /\ \A f \in files \ files' :
            is_remote => \E w \in Workers :
                            /\ FileName(url[w]) = f /\ relay[w] = "ok"
                            /\ f \in remote_files]_vars

\* C17: from a failed scp run to the end of that attempt, the URL's retry count
\* is not raised, the URL is not put in failed and not re-queued, and the attempt
\* ends with the URL recorded as completed.
RelayFailureNotDownloadFailure ==
    [][\A w \in Workers :
        (relay[w] = "failed" /\ pc'[w] # pc[w])
            => /\ DictGet(retry_counts', url[w], 0) <= DictGet(retry_counts, url[w], 0)
               /\ failed' = failed
               /\ download_queue' = download_queue
               /\ pc'[w] \in {"success", "task_done", "loop"}
               /\ pc'[w] = "task_done" => url[w] \in completed']_vars

ReAddIsNoOp ==
    [][\A u \in Urls :
        (/\ submits'[u] > submits[u]
         /\ InQueue(u) \/ u \in DOMAIN active_downloads \/ u \in completed)
            => /\ download_queue' = download_queue
               /\ unfinished_tasks' = unfinished_tasks]_vars

\* C20: after stop() no worker takes a URL from the queue.
NoClaimAfterStop ==
    [][~running => \A w \in Workers : url[w] = NoUrl => url'[w] = NoUrl]_vars

\* the positions at which a worker has an entry of its own in active_downloads
Claimed == InFlight \cup {"success", "except", "sleep", "release"}

\* C21: stop() aborts no transfer: a worker thread ends only at its loop test,
\* holding no URL; after stop() a transfer goes on to its own outcome, which the
\* worker records (completed, re-queued with a raised retry count, or failed)
\* before it is back at the loop test; and with every worker scheduled and every
\* attempt terminating, all started workers have ended some time after stop().
CooperativeStop ==
    /\ [][\A w \in Workers :
            (pc'[w] = "exited" /\ pc[w] # "exited")
                => (~running /\ pc[w] = "loop" /\ url[w] = NoUrl)]_vars
    /\ [][\A w \in Workers :
            (~running /\ pc'[w] # pc[w] /\ pc[w] \in Claimed)
                => /\ pc[w] \in InFlight => pc'[w] \in InFlight \cup {"success", "except"}
                   /\ pc[w] = "success"
                        => (pc'[w] = "task_done" /\ url[w] \in completed')
                   /\ pc[w] = "except"
                        => \/ /\ pc'[w] = "sleep"
                              /\ retry_counts'[url[w]] = DictGet(retry_counts, url[w], 0) + 1
                           \/ /\ pc'[w] = "release"
                              /\ url[w] \in failed'
                   /\ pc[w] = "sleep"
                        => (pc'[w] = "release" /\ InQueue(url[w])')
                   /\ pc[w] = "release" => pc'[w] = "task_done"]_vars
    /\ (~running /\ Started) ~> (\A w \in Workers : pc[w] = "exited")

\* stop() was called, one worker has ended, and the other still is in a transfer
\* whose whole body has arrived.
CooperativeStopWitness ==
    /\ ~running
    /\ \E w, v \in Workers :
        /\ pc[w] = "exited"
        /\ pc[v] = "stream" /\ downloaded[v] = BodyLen

\* C22: stop() returns: once it has been called, the caller gets past the last
\* join whatever the workers do, and it stays returned.
StopReturns ==
    /\ (~running) ~> (joining = Returned)
    /\ [](joining # 0 => ~running)
    /\ [][joining = Returned => joining' = Returned]_vars

\* stop() has returned while a worker still is in the middle of a body
StopReturnsWitness ==
    /\ joining = Returned
    /\ \E w \in Workers : pc[w] = "stream" /\ downloaded[w] < BodyLen

\* C23: while a worker is in its backoff delay, get_status() can return a snapshot
\* and every other worker can take the lock to claim, to update progress or to
\* record a completion or a failure.
BackoffOccupiesOneWorker ==
    \A w \in Workers :
        pc[w] = "sleep"
            => /\ Observable
               /\ \A v \in Workers \ {w} :
                    pc[v] \in {"claim", "stream", "success", "except"} => lock = NoWorker

\* the keys of the status mapping
StatusKeys ==
    {"active", "completed", "completed_urls", "failed", "retry_counts", "queued",
     "downloaded_files", "is_remote"}

\* C24: whenever get_status() can return, the mapping it returns has the keys
\* active, completed, completed_urls, failed, retry_counts, queued,
\* downloaded_files and is_remote, and is_remote is the manager's flag.
StatusHasAllKeys ==
    Observable =>
        /\ StatusKeys \subseteq DOMAIN StatusValue
        /\ StatusValue.is_remote = is_remote

\* C25: in local mode, once the pool has drained, every completed URL has a file
\* named by its final path segment that holds the body served for that URL.
OneFilePerCompletedUrl ==
    (~is_remote /\ Drained) =>
        \A u \in completed :
            /\ FileName(u) \in files
            /\ contents[FileName(u)] = Body(u)

\* C26: the except block of a URL whose retry count is k-1 < max_retries sets the
\* count to k and, before it puts the URL back at the end of the queue, sleeps
\* 2^(k-1) time units (1, 2, 4); with the count at max_retries it puts nothing
\* back.
RetryDecision ==
    /\ [][\A w \in Workers :
            (pc[w] = "except" /\ pc'[w] # "except")
                => LET k == DictGet(retry_counts, url[w], 0) + 1
                   IN IF k - 1 < max_retries
                      THEN /\ pc'[w] = "sleep"
                           /\ retry_counts'[url[w]] = k
                           /\ download_queue' = download_queue
                      ELSE /\ pc'[w] = "release"
                           /\ download_queue' = download_queue
                           /\ retry_counts' = retry_counts]_vars
    /\ [][\A w \in Workers :
            (pc[w] = "sleep" /\ pc'[w] # "sleep")
                => LET k == retry_counts[url[w]]
                   IN /\ k \in 1..max_retries
                      /\ delay'[w] = 2 ^ (k - 1)
                      /\ delay'[w] = CASE k = 1 -> 1 [] k = 2 -> 2 [] k = 3 -> 4
                                       [] OTHER -> -1
                      /\ download_queue' = Append(download_queue, url[w])]_vars
    /\ [][\A w \in Workers :
            (pc[w] = "release" /\ pc'[w] # "release" /\ delay[w] = 0)
                => download_queue' = download_queue]_vars

RetryDecisionWitness ==
    \E w \in Workers :
        /\ pc[w] = "release"
        /\ delay[w] = 4
        /\ retry_counts[url[w]] = max_retries
        /\ InQueue(url[w])

\* C27: start() makes max_workers worker threads, all alive, and all of them stay
\* alive while running is True; running is True until stop() is called, stop()
\* alone makes it False, and it is False ever after.
StartCreatesWorkers ==
    /\ [][(~Started /\ Started')
            => /\ Cardinality({w \in Workers : pc'[w] = "loop"}) = max_workers
               /\ LiveWorkers' = Workers]_vars
    /\ []((Started /\ running) => Cardinality(LiveWorkers) = max_workers)
    /\ [](joining = 0 <=> running)
    /\ [][~running => ~running']_vars

StartCreatesWorkersWitness ==
    /\ Started /\ running
    /\ Cardinality(LiveWorkers) = max_workers
    /\ failed # {}
    /\ completed # {}

RECURSIVE SubmitsUpTo(_)
\* the number of add_download() calls made for the URLs 1..n
SubmitsUpTo(n) == IF n = 0 THEN 0 ELSE submits[n] + SubmitsUpTo(n - 1)

\* C28: before start(), add_download(url) raises the queued count of get_status()
\* by one and leaves active, completed, completed_urls, failed and retry_counts
\* as they are; after n calls the queued count is n.
AddDownloadFrame ==
    /\ [][\A u \in Urls :
            (submits'[u] > submits[u] /\ ~Started)
                => /\ StatusValue'.queued = StatusValue.queued + 1
                   /\ StatusValue'.active = StatusValue.active
                   /\ StatusValue'.completed = StatusValue.completed
                   /\ StatusValue'.completed_urls = StatusValue.completed_urls
                   /\ StatusValue'.failed = StatusValue.failed
                   /\ StatusValue'.retry_counts = StatusValue.retry_counts]_vars
    /\ [](~Started => StatusValue.queued = SubmitsUpTo(NumUrls))

\* the same URL was added twice before start(): it is queued twice
AddDownloadFrameWitness ==
    /\ ~Started
    /\ Len(download_queue) = 2
    /\ download_queue[1] = download_queue[2]
    /\ StatusValue.queued = 2

\* C29: a worker takes the URL at the head of the queue, the rest keeps its order,
\* and a URL re-queued for a retry goes behind everything that is in the queue.
QueueOrder ==
    /\ [][\A w \in Workers :
            (url[w] = NoUrl /\ url'[w] # NoUrl)
                => /\ download_queue # <<>>
                   /\ url'[w] = Head(download_queue)
                   /\ download_queue' = Tail(download_queue)]_vars
    /\ [][\A w \in Workers :
            (pc[w] = "sleep" /\ pc'[w] # "sleep")
                => download_queue' = Append(download_queue, url[w])]_vars
    /\ [][\/ download_queue' = download_queue
          \/ download_queue # <<>> /\ download_queue' = Tail(download_queue)
          \/ \E u \in Urls : download_queue' = Append(download_queue, u)]_vars

\* a URL that has failed stands in the queue behind one that was not tried yet
QueueOrderWitness ==
    /\ Len(download_queue) = 2
    /\ download_queue[1] # download_queue[2]
    /\ attempts[download_queue[1]] = 0
    /\ failures[download_queue[2]] > 0
    /\ download_queue[2] \in DOMAIN retry_counts

\* C30: active has an entry for a URL exactly while some worker is between its
\* claim of that URL and its release of it.
ActiveWhileHeld ==
    \A u \in Urls :
        (u \in DOMAIN active_downloads)
            <=> (\E w \in Workers : url[w] = u /\ pc[w] \in Claimed)

\* the workers that hold a URL taken from the queue
Holders == {w \in Workers : url[w] # NoUrl}

\* C38: every dequeue is matched by exactly one task_done(), on the success, the
\* re-queue and the failed path, and a re-queue's put() comes before that
\* task_done(): the unfinished-task count is the number of URLs queued or held, so
\* it is zero only when no URL is queued or held.
TaskDoneMatched ==
    /\ [](unfinished_tasks = Len(download_queue) + Cardinality(Holders))
    /\ [](unfinished_tasks = 0 => Drained)
    /\ [][\A w \in Workers :
            (url[w] # NoUrl /\ url'[w] = NoUrl)
                => /\ pc[w] = "task_done"
                   /\ unfinished_tasks' = unfinished_tasks - 1]_vars
    /\ [][\A w \in Workers :
            (pc[w] = "sleep" /\ pc'[w] # "sleep")
                => /\ url'[w] = url[w]
                   /\ pc'[w] # "task_done"
                   /\ unfinished_tasks' = unfinished_tasks + 1]_vars

\* the count is back at zero after a success, a re-queue and a permanent failure
TaskDoneMatchedWitness ==
    /\ Started
    /\ Drained
    /\ unfinished_tasks = 0
    /\ \E u \in completed : failures[u] > 0
    /\ failed # {}

\* C35: in every get_status() snapshot the 'completed' count is the number of URLs
\* in 'completed_urls', and the completed set and the failed set only grow.
StatusCountsAgree ==
    /\ [](Observable
            => StatusValue.completed = Cardinality(StatusValue.completed_urls))
    /\ [][/\ completed \subseteq completed'
          /\ completed_urls \subseteq completed_urls'
          /\ failed \subseteq failed']_vars

\* a snapshot can be taken when one URL is completed and another has failed
StatusCountsAgreeWitness ==
    /\ Observable
    /\ StatusValue.completed = 1
    /\ StatusValue.failed = 1
    /\ completed_urls # failed

\* the workers between their claim of a URL and their release of it
Claimants == {w \in Workers : pc[w] \in Claimed}
\* the workers inside _download_file
Transferring == {w \in Workers : pc[w] \in InFlight}

\* C34: active never has more entries than max_workers, each entry belonging to a
\* worker that has claimed its URL, and at most max_workers transfer attempts run
\* at the same time.
ActiveBounded ==
    /\ Cardinality(DOMAIN active_downloads) <= Cardinality(Claimants)
    /\ \A u \in DOMAIN active_downloads : \E w \in Claimants : url[w] = u
    /\ Cardinality(DOMAIN active_downloads) <= max_workers
    /\ Cardinality(Transferring) <= max_workers

\* every worker is streaming a URL of its own: active is full
ActiveBoundedWitness ==
    /\ Cardinality(DOMAIN active_downloads) = max_workers
    /\ \A w \in Workers : pc[w] = "stream" /\ downloaded[w] > 0

\* C33: a URL is in completed only if an attempt for it streamed the whole body to
\* the destination or the destination existed before its first attempt; a URL
\* whose attempts all failed part-way is not in completed.
CompletedMeansTransferred ==
    \A u \in completed : u \in streamed \/ u \in existed

\* the entry of active for URL u
Entry(u) == heap[active_downloads[u]]

\* C37: within one transfer attempt the progress of an active URL starts at 0,
\* with total 0, from the claim on, and while the body is streamed it is the
\* number of bytes the attempt has written so far.
ProgressTracksBytes ==
    \A w \in Workers :
        url[w] \in DOMAIN active_downloads
            => /\ pc[w] \in {"download", "open"}
                   => Entry(url[w]).progress = 0 /\ Entry(url[w]).total = 0
               /\ pc[w] = "stream" => Entry(url[w]).progress = downloaded[w]

\* C32: with the workers started and every transfer attempt terminating, as long
\* as stop() is not called every submitted URL eventually is in completed or in
\* failed, and the pool reaches a state with the queue empty and active empty.
PoolDrains ==
    /\ \A u \in Urls :
          (Started /\ submits[u] > 0) ~> (u \in completed \/ u \in failed \/ ~running)
    /\ Started ~> ((download_queue = <<>> /\ active_downloads = EmptyDict) \/ ~running)

\* the pool is still running and idle after its one URL failed for good
PoolDrainsWitness ==
    /\ Started
    /\ running
    /\ Drained
    /\ active_downloads = EmptyDict
    /\ \E u \in Urls : submits[u] > 0 /\ u \in failed /\ u \notin completed

\* C31: while a download manager is active, after every key each URL under a
\* selected item has been passed to add_download(), whichever key selected it.
SelectionSubmitted ==
    (in_menu /\ download_manager)
        => \A item \in selected_items : \A u \in UrlsUnder(item) : submits[u] > 0

\* C36: the menu calls add_download() at most once per URL, whatever the sequence
\* of select, deselect, re-select and directory prompts, and deselecting an item
\* leaves the queue as it is.
SubmittedOnce ==
    /\ [](\A u \in Urls : submits[u] <= 1)
    /\ [](\A u \in Urls : submits[u] = 1 <=> u \in downloaded_items)
    /\ [][(selected_items' # selected_items /\ selected_items' \subseteq selected_items)
            => download_queue' = download_queue /\ submits' = submits]_vars

\* every distro was selected with the manager active and deselected again: each
\* URL, also the one listed under every distro, was submitted once and is queued
SubmittedOnceWitness ==
    /\ in_menu
    /\ download_manager
    /\ selected_items = {}
    /\ \A u \in Urls : submits[u] = 1 /\ InQueue(u)
    /\ Len(download_queue) = NumUrls

====
